---- MODULE Spec2Model ----
(***************************************************************************)
(* QComponent (qiskit_metal/components/base/base.py): option template      *)
(* resolution over a class ancestry, per-design template registration,     *)
(* instance construction and the make / rebuild lifecycle.                 *)
(*                                                                         *)
(* Python objects live in `heap`: every dict is a heap cell addressed by   *)
(* its index, and a dict value is either an atom <<"atom", n>> or a        *)
(* reference <<"ref", a>> to another dict, so that aliasing, shallow       *)
(* merging and deepcopy are distinguishable.                               *)
(***************************************************************************)
EXTENDS Integers, Sequences, FiniteSets, TLC

VARIABLES
    bases,             \* class table: class name -> sequence of direct bases
    default_options,   \* class table: class name -> address of the dict the class declares itself, or None
    heap,              \* Python heap: sequence of dict objects
    resolved,          \* what the last direct call of _gather_all_children_options returned
    template_options,  \* design.template_options: template key -> address
    template_source,   \* template key -> the explicit template its template was copied from, or None
    latest_id,         \* the design's id allocator: last id handed out
    components,        \* design.components: id -> index of the instance in qcomponents
    qcomponents,       \* every QComponent instance ever allocated, in creation order
    elements,          \* design.elements: owner id -> number of geometry rows it owns
    constructed,       \* per instance: the make argument of its constructor and whether the constructor returned
    calls,             \* what the last operation sent to design.elements, and its make() entries, in order
    last               \* outcome of the last operation as its caller sees it

vars == <<bases, default_options, heap, resolved, template_options, template_source, latest_id,
          components, qcomponents, constructed, elements, calls, last>>

-----------------------------------------------------------------------------
(* Bounds *)

\* instances constructed in one design
MaxComponents == 2

\* geometry rows one owner may hold before further builds are cut off
MaxRows == 2

-----------------------------------------------------------------------------
(* Python values *)

\* body applied to the value of v, v being evaluated once
Bind(v, body(_)) == CHOOSE r \in {body(x) : x \in {v}} : TRUE

\* Python's None, as an address that is no heap cell
None == 0

Atom(n) == <<"atom", n>>
Ref(a) == <<"ref", a>>
IsRef(v) == v[1] = "ref"

\* the empty dict {}
EmptyDict == [k \in {} |-> Atom(0)]

OptionKeys == <<"x", "y">>

KeySet == {OptionKeys[i] : i \in 1..Len(OptionKeys)}

\* The contents of the dict at address a, nested dicts included (values
\* compared by content, not by identity): path -> atom, a path being <<k>>
\* or <<k, k2>>; a key holding a nested dict maps to 0 (no atom is 0).
FlatOf(h, d) ==
    LET refkeys == {k \in DOMAIN d : IsRef(d[k])}
        paths == {<<k>> : k \in DOMAIN d} \cup
                 UNION {{<<k, k2>> : k2 \in DOMAIN h[d[k][2]]} : k \in refkeys}
    IN  [p \in paths |->
            IF Len(p) = 1
            THEN IF IsRef(d[p[1]]) THEN 0 ELSE d[p[1]][2]
            ELSE h[d[p[1]][2]][p[2]][2]]

FlatView(h, a) == FlatOf(h, h[a])

\* every address reachable from the dict at address a, a included
Reach(h, a) == {a} \cup {h[a][k][2] : k \in {j \in DOMAIN h[a] : IsRef(h[a][j])}}

\* bool(d) for an argument that is None or a dict: None and {} are falsy
Truthy(h, a) == a /= None /\ DOMAIN h[a] /= {}

\* copy.deepcopy of a dict whose cells are d: nested dicts are copied into
\* fresh cells (in key order), then the copy itself is the last new cell.
RECURSIVE DeepCopyFrom(_, _, _, _)
DeepCopyFrom(h, d, i, acc) ==
    IF i > Len(OptionKeys) THEN [h |-> Append(h, acc), a |-> Len(h) + 1]
    ELSE LET k == OptionKeys[i] IN
         IF k \notin DOMAIN d THEN DeepCopyFrom(h, d, i + 1, acc)
         ELSE IF IsRef(d[k])
              THEN Bind(DeepCopyFrom(h, h[d[k][2]], 1, EmptyDict),
                        LAMBDA sub : DeepCopyFrom(sub.h, d, i + 1, acc @@ (k :> Ref(sub.a))))
              ELSE DeepCopyFrom(h, d, i + 1, acc @@ (k :> d[k]))

deepcopy(h, d) == DeepCopyFrom(h, d, 1, EmptyDict)

\* {**a, **b}: a new dict, b's entries over a's; values are shared, not copied
MergeDicts(a, b) == [k \in DOMAIN a \cup DOMAIN b |-> IF k \in DOMAIN b THEN b[k] ELSE a[k]]

-----------------------------------------------------------------------------
(* The dict objects that exist before any operation runs *)

\* cells 1..4: dicts that component classes declare as default_options
\* cells 5..8: dicts a caller holds and may pass as options or component_template
InitHeap ==
    << ("x" :> Atom(1)) @@ ("y" :> Atom(1)),
       ("x" :> Atom(2)),
       ("x" :> Atom(1)) @@ ("y" :> Atom(1)),
       ("y" :> Ref(3)),
       EmptyDict,
       ("x" :> Atom(2)),
       ("x" :> Atom(2)),
       ("y" :> Ref(7)) >>

ClassDicts == {1, 2, 4}
CallerDicts == {5, 6, 8}

-----------------------------------------------------------------------------
(* Classes *)

ClassNames == {"object", "QComponent", "B", "C", "D", "E"}
SubClasses == {"B", "C", "D", "E"}

\* single inheritance: QComponent <- B <- C <- D <- E
Linear ==
    [c \in ClassNames |->
        CASE c = "object" -> <<>>
          [] c = "QComponent" -> <<"object">>
          [] c = "B" -> <<"QComponent">>
          [] c = "C" -> <<"B">>
          [] c = "D" -> <<"C">>
          [] c = "E" -> <<"D">>]

\* class E(C, D), with C(B) and D(B)
DiamondCD == [Linear EXCEPT !["D"] = <<"B">>, !["E"] = <<"C", "D">>]

\* class E(D, C), with C(B) and D(B)
DiamondDC == [Linear EXCEPT !["D"] = <<"B">>, !["E"] = <<"D", "C">>]

Hierarchies == {Linear, DiamondCD, DiamondDC}

\* the merge step of Python's C3 linearisation over the sequences in seqs
RECURSIVE C3Merge(_)
C3Merge(seqs) ==
    Bind(SelectSeq(seqs, LAMBDA s : Len(s) > 0), LAMBDA live :
        IF Len(live) = 0 THEN <<>>
        ELSE LET good(i) == \A j \in 1..Len(live) :
                               \A p \in 2..Len(live[j]) : live[j][p] /= live[i][1]
                 i0 == CHOOSE i \in 1..Len(live) :
                           good(i) /\ \A j \in 1..(i - 1) : ~good(j)
             IN  Bind(live[i0][1], LAMBDA hd :
                    <<hd>> \o C3Merge([j \in 1..Len(live) |->
                                IF live[j][1] = hd THEN Tail(live[j]) ELSE live[j]])))

\* inspect.getmro(cls): cls first, object last
RECURSIVE getmro(_)
getmro(cls) ==
    Bind(bases[cls], LAMBDA bs :
        <<cls>> \o C3Merge([i \in 1..Len(bs) |-> getmro(bs[i])] \o <<bs>>))

\* the class whose own default_options the attribute lookup
\* child.default_options finds: the first in child's mro that declares one
\* ("object" when none does, i.e. hasattr is false)
AttrOwner(child) ==
    Bind(getmro(child), LAMBDA mro :
        Bind({i \in 1..Len(mro) : default_options[mro[i]] /= None}, LAMBDA hits :
            IF hits = {} THEN "object"
            ELSE mro[CHOOSE i \in hits : \A j \in hits : i <= j]))

hasattr_default_options(child) == AttrOwner(child) /= "object"

\* the loop of _gather_all_children_options over parents[len(parents)-2::-1],
\* position i of parents counted from 1: from the class below object down to cls
RECURSIVE GatherFrom(_, _, _, _)
GatherFrom(h, parents, i, options_from_children) ==
    IF i < 1 THEN options_from_children
    ELSE LET child == parents[i] IN
         Bind(IF hasattr_default_options(child)
              THEN Bind(h[default_options[AttrOwner(child)]], LAMBDA child_default_options :
                       MergeDicts(options_from_children, child_default_options))
              ELSE options_from_children,
              LAMBDA merged : GatherFrom(h, parents, i - 1, merged))

\* cls._gather_all_children_options(): the cells of the dict it returns
_gather_all_children_options(h, cls) ==
    Bind(getmro(cls), LAMBDA parents : GatherFrom(h, parents, Len(parents) - 1, EmptyDict))

\* cls._get_unique_class_name()
_get_unique_class_name(cls) == cls

-----------------------------------------------------------------------------
(* Template registration *)

\* variant: registration without the "do not overwrite" test
_register_class_with_design_overwrite(h, t, cls, template_key, component_template) ==
    Bind(IF ~Truthy(h, component_template)
         THEN _gather_all_children_options(h, cls)
         ELSE h[component_template],
         LAMBDA tmpl : Bind(deepcopy(h, tmpl), LAMBDA cp :
             [h |-> cp.h, t |-> (template_key :> cp.a) @@ t]))

\* variant: a class whose template would be empty is not registered
_register_class_with_design_skip_empty(h, t, cls, template_key, component_template) ==
    IF template_key \in DOMAIN t THEN [h |-> h, t |-> t]
    ELSE Bind(IF ~Truthy(h, component_template)
              THEN _gather_all_children_options(h, cls)
              ELSE h[component_template],
              LAMBDA tmpl :
                 IF DOMAIN tmpl = {} THEN [h |-> h, t |-> t]
                 ELSE Bind(deepcopy(h, tmpl), LAMBDA cp :
                          [h |-> cp.h, t |-> t @@ (template_key :> cp.a)]))

\* cls._register_class_with_design(design, template_key, component_template)
\* on heap h and design.template_options t
_register_class_with_design(h, t, cls, template_key, component_template) ==
    IF template_key \in DOMAIN t THEN [h |-> h, t |-> t]
    ELSE Bind(IF ~Truthy(h, component_template)
              THEN _gather_all_children_options(h, cls)
              ELSE h[component_template],
              LAMBDA tmpl : Bind(deepcopy(h, tmpl), LAMBDA cp :
                  [h |-> cp.h, t |-> t @@ (template_key :> cp.a)]))

\* variant: the stored template itself is returned, not a copy
CopyOfTemplate_alias(h, a) == [h |-> h, a |-> a]

\* the copy get_template_options returns: deepcopy(Dict(template))
CopyOfTemplate(h, a) == deepcopy(h, h[a])

\* cls.get_template_options(design, component_template, template_key=key);
\* key "" stands for template_key=None. missing: the key is absent even
\* after registration, where the error is logged and the lookup raises.
\* base: the size of the heap before the returned copy was allocated.
get_template_options(h, t, cls, component_template, key) ==
    LET template_key == IF key = "" THEN _get_unique_class_name(cls) ELSE key IN
    Bind(IF template_key \notin DOMAIN t
         THEN _register_class_with_design(h, t, cls, template_key, component_template)
         ELSE [h |-> h, t |-> t],
         LAMBDA r :
            IF template_key \notin DOMAIN r.t
            THEN [h |-> r.h, t |-> r.t, options |-> None, missing |-> TRUE,
                  base |-> Len(r.h)]
            ELSE Bind(CopyOfTemplate(r.h, r.t[template_key]), LAMBDA cp :
                     [h |-> cp.h, t |-> r.t, options |-> cp.a, missing |-> FALSE,
                      base |-> Len(r.h)]))

\* self.options.update(options): the entries of the dict at address other
\* are stored into the dict at address target, values by reference
DictUpdate(h, target, other) == [h EXCEPT ![target] = MergeDicts(@, h[other])]

\* variant: a nested mapping of the caller is merged, key by key, into the
\* nested mapping the instance has under the same key
update_options_merge_nested(h, target, options) ==
    IF ~Truthy(h, options) THEN h
    ELSE LET o == h[options]
             t == h[target]
             both == {k \in DOMAIN o \cap DOMAIN t : IsRef(o[k]) /\ IsRef(t[k])}
         IN  [a \in 1..Len(h) |->
                IF a = target
                THEN MergeDicts(t, [k \in DOMAIN o \ both |-> o[k]])
                ELSE IF \E k \in both : t[k][2] = a
                THEN MergeDicts(h[a], h[o[CHOOSE k \in both : t[k][2] = a][2]])
                ELSE h[a]]

\* if options: self.options.update(options), self.options being the dict
\* at address target
update_options(h, target, options) ==
    IF Truthy(h, options) THEN DictUpdate(h, target, options) ELSE h

-----------------------------------------------------------------------------
(* The design's registry and geometry table *)

\* design._get_new_qcomponent_id() on the allocator's last id: the id it returns
_get_new_qcomponent_id(lid) == lid + 1

\* the number of rows design.elements holds for an owner id
RowsOf(elems, id) == IF id \in DOMAIN elems THEN elems[id] ELSE 0

\* design.elements.delete_component(id)
delete_component(elems, id) == (id :> 0) @@ elems

\* one entry of `calls`: the operation, the id it carries, and the caller's
\* status, registration in design.components and owned rows at that moment
Event(op, self, idx, comps, elems) ==
    [op |-> op, id |-> self.id, status |-> self.status,
     registered |-> (self.id \in DOMAIN comps /\ comps[self.id] = idx),
     rows |-> RowsOf(elems, self.id)]

-----------------------------------------------------------------------------
(* Pins *)

\* Exact numbers: a float that is a ratio of integers is <<n, d>> in lowest
\* terms with d > 0; <<0, 0>> is nan, the float 0/0.
RECURSIVE GCD(_, _)
GCD(a, b) == IF b = 0 THEN a ELSE GCD(b, a % b)

Abs(n) == IF n < 0 THEN -n ELSE n

\* n / d
Frac(n, d) ==
    IF d = 0 THEN <<0, 0>>
    ELSE Bind(GCD(Abs(n), Abs(d)), LAMBDA g :
            IF d < 0 THEN <<(-n) \div g, (-d) \div g>> ELSE <<n \div g, d \div g>>)

\* -f
NegFrac(f) == <<-f[1], f[2]>>

\* the square root of n, n a perfect square
Isqrt(n) == CHOOSE r \in 0..n : r * r = n

\* the lists of points given to make_pin / add_pin: points are (x, y) pairs
\* whose distance is a whole number; one list is too short, one too long
PointLists ==
    { << <<0, 0>>, <<2, 0>> >>,
      << <<3, 0>>, <<0, 4>> >>,
      << <<1, 1>>, <<1, 1>> >>,
      << <<0, 0>> >>,
      << <<0, 0>>, <<2, 0>>, <<3, 4>> >> }

\* self.pins = dict()
EmptyPins == [n \in {} |-> <<>>]

\* draw.Vector.two_points_described(points): the distance vector, the unit
\* vector along it and a unit vector orthogonal to it (the unit vector
\* turned a quarter counter-clockwise)
two_points_described(points) ==
    LET dx == points[2][1] - points[1][1]
        dy == points[2][2] - points[1][2]
    IN  Bind(Isqrt(dx * dx + dy * dy), LAMBDA norm :
            [vec_dist |-> <<dx, dy>>,
             vec_dist_unit |-> <<Frac(dx, norm), Frac(dy, norm)>>,
             vec_normal |-> <<NegFrac(Frac(dy, norm)), Frac(dx, norm)>>])

\* the Dict make_pin returns, from the results of two_points_described
PinDict(points, parent_name, flip, chip, d) ==
    [points |-> points,
     middle |-> <<Frac(points[1][1] + points[Len(points)][1], 2),
                  Frac(points[1][2] + points[Len(points)][2], 2)>>,
     normal |-> IF flip THEN <<NegFrac(d.vec_normal[1]), NegFrac(d.vec_normal[2])>>
                ELSE d.vec_normal,
     tangent |-> d.vec_dist_unit,
     width |-> Isqrt(d.vec_dist[1] * d.vec_dist[1] + d.vec_dist[2] * d.vec_dist[2]),
     chip |-> chip,
     parent_name |-> parent_name,
     net_id |-> 0]

\* variant: the number of points is not checked, the first and the last are used
make_pin_unchecked(points, parent_name, flip, chip) ==
    [raised |-> FALSE,
     pin |-> PinDict(points, parent_name, flip, chip,
                     two_points_described(<<points[1], points[Len(points)]>>))]

\* variant: the normal is not flipped
make_pin_no_flip(points, parent_name, flip, chip) ==
    IF Len(points) /= 2 THEN [raised |-> TRUE, pin |-> <<>>]
    ELSE [raised |-> FALSE,
          pin |-> PinDict(points, parent_name, FALSE, chip, two_points_described(points))]

\* self.make_pin(points, parent_name, flip, chip); raised: the assert failed
make_pin(points, parent_name, flip, chip) ==
    IF Len(points) /= 2 THEN [raised |-> TRUE, pin |-> <<>>]
    ELSE [raised |-> FALSE,
          pin |-> PinDict(points, parent_name, flip, chip, two_points_described(points))]

\* self.get_pin(name); raised: the name is not in self.pins
get_pin(self, name) ==
    IF name \in DOMAIN self.pins THEN [raised |-> FALSE, ret |-> self.pins[name]]
    ELSE [raised |-> TRUE, ret |-> <<>>]

\* variant: a name already in self.pins keeps its pin
add_pin_keep_first(self, name, points, parent, flip, chip) ==
    Bind(make_pin(points, parent, flip, chip), LAMBDA p :
        IF p.raised THEN [self |-> self, raised |-> TRUE]
        ELSE [self |-> [self EXCEPT !.pins = @ @@ (name :> p.pin)], raised |-> FALSE])

\* self.add_pin(name, points, parent, flip, chip)
add_pin(self, name, points, parent, flip, chip) ==
    Bind(make_pin(points, parent, flip, chip), LAMBDA p :
        IF p.raised THEN [self |-> self, raised |-> TRUE]
        ELSE [self |-> [self EXCEPT !.pins = (name :> p.pin) @@ @], raised |-> FALSE])

-----------------------------------------------------------------------------
(* The instance *)

\* variant: the drawn id is not stored: self is filed under the placeholder
_add_to_design_placeholder(self, idx, comps, lid) ==
    [self |-> self,
     components |-> (self.id :> idx) @@ comps,
     latest_id |-> _get_new_qcomponent_id(lid)]

\* self._add_to_design(): draws an id, stores it and files self under it
_add_to_design(self, idx, comps, lid) ==
    LET id == _get_new_qcomponent_id(lid) IN
    [self |-> [self EXCEPT !.id = id],
     components |-> (id :> idx) @@ comps,
     latest_id |-> id]

\* an entry of `calls` that also carries the arguments sent with the operation
EventWith(op, self, idx, comps, elems, args) ==
    Bind(Event(op, self, idx, comps, elems), LAMBDA e :
        [op |-> e.op, id |-> e.id, status |-> e.status, registered |-> e.registered,
         rows |-> e.rows, args |-> args])

\* the arguments of add_elements when only kind and elements are given:
\* subtract=False, helper=False, layer=1, chip='main'
DefaultElementArgs ==
    [kind |-> "poly", subtract |-> FALSE, helper |-> FALSE, layer |-> 1, chip |-> "main"]

\* the argument combinations add_elements is called with
ElementArgs ==
    { DefaultElementArgs,
      [kind |-> "path", subtract |-> TRUE, helper |-> TRUE, layer |-> 2, chip |-> "c2"],
      [kind |-> "poly", subtract |-> TRUE, helper |-> FALSE, layer |-> 2, chip |-> "main"],
      [kind |-> "path", subtract |-> FALSE, helper |-> TRUE, layer |-> 1, chip |-> "c2"] }

\* design.elements.add_elements(kind, id, elements, subtract, helper, layer, chip)
table_add_elements(elems, id, args) == (id :> (RowsOf(elems, id) + 1)) @@ elems

\* variant: a subtracted helper is forwarded as a plain subtracted element
add_elements_repair(self, idx, comps, elems, log, args) ==
    LET sent == IF args.subtract /\ args.helper THEN [args EXCEPT !.helper = FALSE] ELSE args
    IN  [elements |-> table_add_elements(elems, self.id, sent),
         calls |-> Append(log, EventWith("add_elements", self, idx, comps, elems, sent))]

\* self.add_elements(kind, elements, subtract, helper, layer, chip):
\* forwarded to design.elements under self.id
add_elements(self, idx, comps, elems, log, args) ==
    [elements |-> table_add_elements(elems, self.id, args),
     calls |-> Append(log, EventWith("add_elements", self, idx, comps, elems, args))]

\* the kinds the geometry table has a table for
ElementTypes == {"poly", "path"}

\* the element_type arguments the read accessors are called with
ElementKinds == ElementTypes \cup {"bogus", "all"}

\* design.elements.check_element_type(element_type)
check_element_type(element_type) == element_type \in ElementTypes

\* what design.elements answers to the read `read` for an owner id and a kind
TableAnswer(read, elems, id, element_type) ==
    [read |-> read, id |-> id, kind |-> element_type, rows |-> RowsOf(elems, id)]

\* the outcome of an accessor that forwards the read `read` to the table
\* when `checked` holds and returns None otherwise; calls: what it sent
ReadIf(checked, read, self, idx, comps, elems, element_type, log) ==
    IF checked
    THEN [none |-> FALSE, answer |-> TableAnswer(read, elems, self.id, element_type),
          calls |-> Append(log, EventWith(read, self, idx, comps, elems,
                                          [kind |-> element_type]))]
    ELSE [none |-> TRUE, answer |-> <<>>, calls |-> log]

\* the entry of `calls` for a check_element_type sent by an accessor
CheckEvent(self, idx, comps, elems, element_type) ==
    <<EventWith("check_element_type", self, idx, comps, elems, [kind |-> element_type])>>

\* variant: the kind is not checked before the read
elements_dict_unchecked(self, idx, comps, elems, element_type) ==
    ReadIf(TRUE, "get_component_geometry_dict", self, idx, comps, elems, element_type,
           CheckEvent(self, idx, comps, elems, element_type))

\* self.elements_dict(element_type)
elements_dict(self, idx, comps, elems, element_type) ==
    ReadIf(check_element_type(element_type), "get_component_geometry_dict",
           self, idx, comps, elems, element_type,
           CheckEvent(self, idx, comps, elems, element_type))

\* self.elements_list(element_type): 'all' passes without a check
elements_list(self, idx, comps, elems, element_type) ==
    IF element_type = "all"
    THEN ReadIf(TRUE, "get_component_geometry_list", self, idx, comps, elems,
                element_type, <<>>)
    ELSE ReadIf(check_element_type(element_type), "get_component_geometry_list",
                self, idx, comps, elems, element_type,
                CheckEvent(self, idx, comps, elems, element_type))

\* self.elements_table(element_type)
elements_table(self, idx, comps, elems, element_type) ==
    ReadIf(check_element_type(element_type), "get_component",
           self, idx, comps, elems, element_type,
           CheckEvent(self, idx, comps, elems, element_type))

\* What a subclass's make() does, as the steps it takes: each step calls
\* self.add_elements once or raises (the base class's make() only raises).
MakeScripts ==
    { <<>>, <<"add_elements">>, <<"raise">>, <<"add_elements", "raise">> }

\* the steps of a make() that call self.add_pin('a', points, ...), with
\* the points each one passes
PinSteps ==
    ("add_pin" :> << <<0, 0>>, <<2, 0>> >>) @@ ("add_pin_moved" :> << <<3, 0>>, <<0, 4>> >>)

\* what the make() of a subclass that adds pins does
PinScripts ==
    { <<"add_elements", "add_pin">>, <<"add_elements">>, <<"add_pin_moved">>,
      <<"add_pin", "raise">> }

\* the run of make() from step i of script
RECURSIVE MakeFrom(_, _, _, _, _, _, _)
MakeFrom(self, idx, comps, elems, log, script, i) ==
    IF i > Len(script)
    THEN [elements |-> elems, calls |-> log, raised |-> FALSE, pins |-> self.pins]
    ELSE IF script[i] = "raise"
    THEN [elements |-> elems, calls |-> log, raised |-> TRUE, pins |-> self.pins]
    ELSE IF script[i] \in DOMAIN PinSteps
    THEN Bind(add_pin(self, "a", PinSteps[script[i]], self.class_name, FALSE, "main"),
              LAMBDA p : MakeFrom(p.self, idx, comps, elems, log, script, i + 1))
    ELSE Bind(add_elements(self, idx, comps, elems, log, DefaultElementArgs), LAMBDA r :
             MakeFrom(self, idx, comps, r.elements, r.calls, script, i + 1))

\* self.make(), entered with the geometry table elems and the log so far
make(self, idx, comps, elems, log, script) ==
    MakeFrom(self, idx, comps, elems,
             Append(log, Event("make", self, idx, comps, elems)), script, 1)

\* variant: the status is not set to 'failed' before building
do_make_keep_status(self, idx, comps, elems, script) ==
    IF self.made
    THEN Bind(make(self, idx, comps, delete_component(elems, self.id),
                   <<Event("delete_component", self, idx, comps, elems)>>, script),
              LAMBDA m :
                 [self |-> IF m.raised THEN [self EXCEPT !.pins = m.pins]
                           ELSE [self EXCEPT !.pins = m.pins, !.status = "good"],
                  elements |-> m.elements, calls |-> m.calls, raised |-> m.raised])
    ELSE Bind(make(self, idx, comps, elems, <<>>, script),
              LAMBDA m :
                 [self |-> IF m.raised THEN [self EXCEPT !.pins = m.pins]
                           ELSE [self EXCEPT !.pins = m.pins, !.made = TRUE,
                                             !.status = "good"],
                  elements |-> m.elements, calls |-> m.calls, raised |-> m.raised])

\* variant: a rebuild does not purge the geometry table
do_make_no_purge(self, idx, comps, elems, script) ==
    LET s1 == [self EXCEPT !.status = "failed"] IN
    Bind(make(s1, idx, comps, elems, <<>>, script),
         LAMBDA m :
            [self |-> IF m.raised THEN [s1 EXCEPT !.pins = m.pins]
                      ELSE [s1 EXCEPT !.pins = m.pins, !.made = TRUE, !.status = "good"],
             elements |-> m.elements, calls |-> m.calls, raised |-> m.raised])

\* variant: a rebuild whose make() raises puts back the purged geometry
do_make_rollback(self, idx, comps, elems, script) ==
    LET s1 == [self EXCEPT !.status = "failed"] IN
    IF s1.made
    THEN Bind(make(s1, idx, comps, delete_component(elems, s1.id),
                   <<Event("delete_component", s1, idx, comps, elems)>>, script),
              LAMBDA m :
                 [self |-> IF m.raised THEN [s1 EXCEPT !.pins = m.pins]
                           ELSE [s1 EXCEPT !.pins = m.pins, !.status = "good"],
                  elements |-> IF m.raised THEN elems ELSE m.elements,
                  calls |-> m.calls, raised |-> m.raised])
    ELSE Bind(make(s1, idx, comps, elems, <<>>, script),
              LAMBDA m :
                 [self |-> IF m.raised THEN [s1 EXCEPT !.pins = m.pins]
                           ELSE [s1 EXCEPT !.pins = m.pins, !.made = TRUE,
                                           !.status = "good"],
                  elements |-> m.elements, calls |-> m.calls, raised |-> m.raised])

\* variant: a rebuild empties self.pins along with the geometry
do_make_clear_pins(self, idx, comps, elems, script) ==
    LET s1 == [self EXCEPT !.status = "failed"] IN
    IF s1.made
    THEN Bind(make([s1 EXCEPT !.pins = EmptyPins], idx, comps,
                   delete_component(elems, s1.id),
                   <<Event("delete_component", s1, idx, comps, elems)>>, script),
              LAMBDA m :
                 [self |-> IF m.raised THEN [s1 EXCEPT !.pins = m.pins]
                           ELSE [s1 EXCEPT !.pins = m.pins, !.status = "good"],
                  elements |-> m.elements, calls |-> m.calls, raised |-> m.raised])
    ELSE Bind(make(s1, idx, comps, elems, <<>>, script),
              LAMBDA m :
                 [self |-> IF m.raised THEN [s1 EXCEPT !.pins = m.pins]
                           ELSE [s1 EXCEPT !.pins = m.pins, !.made = TRUE,
                                           !.status = "good"],
                  elements |-> m.elements, calls |-> m.calls, raised |-> m.raised])

\* variant: a first build marks the component made before make() runs
do_make_made_first(self, idx, comps, elems, script) ==
    LET s1 == [self EXCEPT !.status = "failed"] IN
    IF s1.made
    THEN Bind(make(s1, idx, comps, delete_component(elems, s1.id),
                   <<Event("delete_component", s1, idx, comps, elems)>>, script),
              LAMBDA m :
                 [self |-> IF m.raised THEN [s1 EXCEPT !.pins = m.pins]
                           ELSE [s1 EXCEPT !.pins = m.pins, !.status = "good"],
                  elements |-> m.elements, calls |-> m.calls, raised |-> m.raised])
    ELSE Bind(make(s1, idx, comps, elems, <<>>, script),
              LAMBDA m :
                 [self |-> IF m.raised THEN [s1 EXCEPT !.pins = m.pins, !.made = TRUE]
                           ELSE [s1 EXCEPT !.pins = m.pins, !.made = TRUE,
                                           !.status = "good"],
                  elements |-> m.elements, calls |-> m.calls, raised |-> m.raised])

\* self.do_make() / self.rebuild()
do_make(self, idx, comps, elems, script) ==
    LET s1 == [self EXCEPT !.status = "failed"] IN
    IF s1.made
    THEN Bind(make(s1, idx, comps, delete_component(elems, s1.id),
                   <<Event("delete_component", s1, idx, comps, elems)>>, script),
              LAMBDA m :
                 [self |-> IF m.raised THEN [s1 EXCEPT !.pins = m.pins]
                           ELSE [s1 EXCEPT !.pins = m.pins, !.status = "good"],
                  elements |-> m.elements, calls |-> m.calls, raised |-> m.raised])
    ELSE Bind(make(s1, idx, comps, elems, <<>>, script),
              LAMBDA m :
                 [self |-> IF m.raised THEN [s1 EXCEPT !.pins = m.pins]
                           ELSE [s1 EXCEPT !.pins = m.pins, !.made = TRUE,
                                           !.status = "good"],
                  elements |-> m.elements, calls |-> m.calls, raised |-> m.raised])

\* variant: the constructor ignores its make argument and never builds
InitBody_no_build(cls, options, idx, comps, lid, elems, make_arg, script) ==
    LET self0 == [class_name |-> cls, id |-> 0, options |-> options,
                  status |-> "not built", made |-> FALSE, pins |-> EmptyPins]
    IN  Bind(_add_to_design(self0, idx, comps, lid), LAMBDA a :
            [self |-> a.self, components |-> a.components, latest_id |-> a.latest_id,
             elements |-> elems, calls |-> <<>>, raised |-> FALSE])

\* variant: the constructor builds before it adds itself to the design
InitBody_build_first(cls, options, idx, comps, lid, elems, make_arg, script) ==
    LET self0 == [class_name |-> cls, id |-> 0, options |-> options,
                  status |-> "not built", made |-> FALSE, pins |-> EmptyPins]
    IN  Bind(IF make_arg
             THEN do_make(self0, idx, comps, elems, script)
             ELSE [self |-> self0, elements |-> elems, calls |-> <<>>, raised |-> FALSE],
             LAMBDA m :
                Bind(_add_to_design(m.self, idx, comps, lid), LAMBDA a :
                    [self |-> a.self, components |-> a.components,
                     latest_id |-> a.latest_id, elements |-> m.elements,
                     calls |-> m.calls, raised |-> m.raised]))

\* variant: the constructor builds whatever its make argument is
InitBody_always_build(cls, options, idx, comps, lid, elems, make_arg, script) ==
    LET self0 == [class_name |-> cls, id |-> 0, options |-> options,
                  status |-> "not built", made |-> FALSE, pins |-> EmptyPins]
    IN  Bind(_add_to_design(self0, idx, comps, lid), LAMBDA a :
            Bind(do_make(a.self, idx, a.components, elems, script), LAMBDA m :
                [self |-> m.self, components |-> a.components,
                 latest_id |-> a.latest_id, elements |-> m.elements,
                 calls |-> m.calls, raised |-> m.raised]))

\* variant: a constructor whose build raises takes itself out of the design
InitBody_unregister(cls, options, idx, comps, lid, elems, make_arg, script) ==
    LET self0 == [class_name |-> cls, id |-> 0, options |-> options,
                  status |-> "not built", made |-> FALSE, pins |-> EmptyPins]
    IN  Bind(_add_to_design(self0, idx, comps, lid), LAMBDA a :
            Bind(IF make_arg
                 THEN do_make(a.self, idx, a.components, elems, script)
                 ELSE [self |-> a.self, elements |-> elems, calls |-> <<>>,
                       raised |-> FALSE],
                 LAMBDA m :
                    [self |-> m.self,
                     components |-> IF m.raised THEN comps ELSE a.components,
                     latest_id |-> a.latest_id, elements |-> m.elements,
                     calls |-> m.calls, raised |-> m.raised]))

\* the part of __init__ after the options are resolved: the fields are
\* set, the instance is added to the design and, if make, built
InitBody(cls, options, idx, comps, lid, elems, make_arg, script) ==
    LET self0 == [class_name |-> cls, id |-> 0, options |-> options,
                  status |-> "not built", made |-> FALSE, pins |-> EmptyPins]
    IN  Bind(_add_to_design(self0, idx, comps, lid), LAMBDA a :
            Bind(IF make_arg
                 THEN do_make(a.self, idx, a.components, elems, script)
                 ELSE [self |-> a.self, elements |-> elems, calls |-> <<>>,
                       raised |-> FALSE],
                 LAMBDA m :
                    [self |-> m.self, components |-> a.components,
                     latest_id |-> a.latest_id, elements |-> m.elements,
                     calls |-> m.calls, raised |-> m.raised]))

-----------------------------------------------------------------------------
(* Operations *)

\* template_source after an operation that was given component_template
\* and took design.template_options from t to t2
SourceAfter(h, t, t2, component_template) ==
    [k \in DOMAIN t2 |->
        IF k \in DOMAIN t THEN template_source[k]
        ELSE IF Truthy(h, component_template) THEN component_template ELSE None]

\* variant: the design argument is not checked
assert_is_design_off(design_ok) == TRUE

\* assert is_design(design): passes iff the argument is a valid design
assert_is_design(design_ok) == design_ok

\* `last` when the operation has nothing to report in a field
NoLast ==
    [op |-> "none", self |-> 0, cls |-> "", raised |-> FALSE, made_before |-> FALSE,
     status_before |-> "", key |-> "", component_template |-> None, stored |-> FALSE,
     ids_drawn |-> 0, ret |-> EmptyDict, design_ok |-> TRUE, args |-> <<>>]

\* QComponent.__init__(design, name, options, make, component_template) of
\* class cls; design_ok is is_design(design), script what cls.make() does
__init__(design_ok, cls, options, make_arg, component_template, script) ==
    /\ Len(qcomponents) < MaxComponents
    /\ IF ~assert_is_design(design_ok)
       THEN /\ last' = [NoLast EXCEPT !.op = "__init__", !.cls = cls, !.raised = TRUE,
                                      !.design_ok = design_ok]
            /\ calls' = <<>>
            /\ UNCHANGED <<heap, template_options, template_source, latest_id, components,
                           qcomponents, constructed, elements>>
       ELSE \E g \in {get_template_options(heap, template_options, cls,
                                            component_template, "")} :
            LET key == _get_unique_class_name(cls)
                stored == key \notin DOMAIN template_options /\ key \in DOMAIN g.t
            IN  IF g.missing
                THEN /\ last' = [NoLast EXCEPT !.op = "__init__", !.cls = cls, !.raised = TRUE,
                                               !.key = key, !.design_ok = design_ok,
                                               !.component_template = component_template]
                     /\ calls' = <<>>
                     /\ heap' = g.h
                     /\ template_options' = g.t
                     /\ template_source' = SourceAfter(heap, template_options, g.t,
                                                       component_template)
                     /\ UNCHANGED <<latest_id, components, qcomponents, constructed, elements>>
                ELSE \E b \in {InitBody(cls, g.options, Len(qcomponents) + 1, components,
                                         latest_id, elements, make_arg, script)} :
                     LET h1 == update_options(g.h, g.options, options)
                         idx == Len(qcomponents) + 1
                     IN  /\ \A id \in DOMAIN b.elements : b.elements[id] <= MaxRows
                         /\ heap' = h1
                         /\ template_options' = g.t
                         /\ template_source' = SourceAfter(heap, template_options, g.t,
                                                           component_template)
                         /\ latest_id' = b.latest_id
                         /\ components' = b.components
                         /\ qcomponents' = Append(qcomponents, b.self)
                         /\ constructed' = Append(constructed,
                                                  [make |-> make_arg, returned |-> ~b.raised])
                         /\ elements' = b.elements
                         /\ calls' = b.calls
                         /\ last' = [NoLast EXCEPT !.op = "__init__", !.self = idx, !.cls = cls,
                                        !.raised = b.raised, !.key = key,
                                        !.component_template = component_template,
                                        !.stored = stored, !.design_ok = design_ok,
                                        !.args = [options |-> options, make |-> make_arg],
                                        !.ids_drawn = b.latest_id - latest_id]
    /\ UNCHANGED <<bases, default_options, resolved>>

\* qcomponents[c].do_make() or .rebuild(), script being what make() does this time
DoMake(c, script) ==
    /\ c \in 1..Len(qcomponents)
    /\ \E r \in {do_make(qcomponents[c], c, components, elements, script)} :
           /\ \A id \in DOMAIN r.elements : r.elements[id] <= MaxRows
           /\ qcomponents' = [qcomponents EXCEPT ![c] = r.self]
           /\ elements' = r.elements
           /\ calls' = r.calls
           /\ last' = [NoLast EXCEPT !.op = "do_make", !.self = c, !.raised = r.raised,
                          !.cls = qcomponents[c].class_name,
                          !.made_before = qcomponents[c].made,
                          !.status_before = qcomponents[c].status,
                          !.args = [script |-> script]]
    /\ UNCHANGED <<bases, default_options, heap, resolved, template_options,
                   template_source, latest_id, components, constructed>>

\* cls._register_class_with_design(design, template_key, component_template)
Register(cls, template_key, component_template) ==
    /\ \E r \in {_register_class_with_design(heap, template_options, cls,
                                             template_key, component_template)} :
           /\ heap' = r.h
           /\ template_options' = r.t
           /\ template_source' = SourceAfter(heap, template_options, r.t, component_template)
           /\ last' = [NoLast EXCEPT !.op = "register", !.cls = cls, !.key = template_key,
                          !.component_template = component_template,
                          !.stored = (template_key \notin DOMAIN template_options
                                      /\ template_key \in DOMAIN r.t)]
    /\ calls' = <<>>
    /\ UNCHANGED <<bases, default_options, resolved, latest_id, components,
                   qcomponents, constructed, elements>>

\* cls.get_template_options(design, component_template, template_key=key);
\* the copy it returns goes to the caller and is kept only as last.ret
GetTemplateOptions(cls, component_template, key) ==
    /\ \E g \in {get_template_options(heap, template_options, cls, component_template, key)} :
       LET template_key == IF key = "" THEN _get_unique_class_name(cls) ELSE key
       IN  /\ heap' = SubSeq(g.h, 1, g.base)
           /\ template_options' = g.t
           /\ template_source' = SourceAfter(heap, template_options, g.t, component_template)
           /\ last' = [NoLast EXCEPT !.op = "get_template_options", !.cls = cls,
                          !.key = template_key, !.raised = g.missing,
                          !.component_template = component_template,
                          !.stored = (template_key \notin DOMAIN template_options
                                      /\ template_key \in DOMAIN g.t),
                          !.ret = IF g.missing THEN EmptyDict ELSE FlatView(g.h, g.options)]
    /\ calls' = <<>>
    /\ UNCHANGED <<bases, default_options, resolved, latest_id, components,
                   qcomponents, constructed, elements>>

\* cls._gather_all_children_options() called directly
Gather(cls) ==
    /\ resolved' = [cls |-> cls, options |-> _gather_all_children_options(heap, cls)]
    /\ UNCHANGED <<bases, default_options, heap, template_options, template_source,
                   latest_id, components, qcomponents, constructed, elements, calls, last>>

\* qcomponents[c].options[k] = v, v an atom
SetOption(c, k, v) ==
    /\ c \in 1..Len(qcomponents)
    /\ heap' = [heap EXCEPT ![qcomponents[c].options] = (k :> Atom(v)) @@ @]
    /\ last' = [NoLast EXCEPT !.op = "set_option", !.self = c]
    /\ calls' = <<>>
    /\ UNCHANGED <<bases, default_options, resolved, template_options, template_source,
                   latest_id, components, qcomponents, constructed, elements>>

\* qcomponents[c].options[k][k2] = v, where options[k] is a nested dict
SetNestedOption(c, k, k2, v) ==
    /\ c \in 1..Len(qcomponents)
    /\ LET o == heap[qcomponents[c].options] IN
       /\ k \in DOMAIN o
       /\ IsRef(o[k])
       /\ heap' = [heap EXCEPT ![o[k][2]] = (k2 :> Atom(v)) @@ @]
    /\ last' = [NoLast EXCEPT !.op = "set_nested_option", !.self = c]
    /\ calls' = <<>>
    /\ UNCHANGED <<bases, default_options, resolved, template_options, template_source,
                   latest_id, components, qcomponents, constructed, elements>>

\* qcomponents[c].add_pin(name, points, parent, flip, chip)
AddPin(c, name, points, parent, flip, chip) ==
    /\ c \in 1..Len(qcomponents)
    /\ \E r \in {add_pin(qcomponents[c], name, points, parent, flip, chip)} :
           /\ qcomponents' = [qcomponents EXCEPT ![c] = r.self]
           /\ last' = [NoLast EXCEPT !.op = "add_pin", !.self = c, !.raised = r.raised,
                          !.args = [name |-> name, points |-> points, parent |-> parent,
                                    flip |-> flip, chip |-> chip]]
    /\ calls' = <<>>
    /\ UNCHANGED <<bases, default_options, heap, resolved, template_options,
                   template_source, latest_id, components, constructed, elements>>

\* qcomponents[c].add_elements(kind, elements, subtract, helper, layer, chip)
\* called directly
AddElements(c, args) ==
    /\ c \in 1..Len(qcomponents)
    /\ \E r \in {add_elements(qcomponents[c], c, components, elements, <<>>, args)} :
           /\ \A id \in DOMAIN r.elements : r.elements[id] <= MaxRows
           /\ elements' = r.elements
           /\ calls' = r.calls
           /\ last' = [NoLast EXCEPT !.op = "add_elements", !.self = c, !.args = args]
    /\ UNCHANGED <<bases, default_options, heap, resolved, template_options,
                   template_source, latest_id, components, qcomponents, constructed>>

\* a read accessor of qcomponents[c] has returned r
ReadReturns(op, c, element_type, r) ==
    /\ calls' = r.calls
    /\ last' = [NoLast EXCEPT !.op = op, !.self = c, !.args = [kind |-> element_type],
                   !.ret = [none |-> r.none, answer |-> r.answer]]
    /\ UNCHANGED <<bases, default_options, heap, resolved, template_options,
                   template_source, latest_id, components, qcomponents, constructed,
                   elements>>

\* qcomponents[c].elements_dict(element_type)
ElementsDict(c, element_type) ==
    /\ c \in 1..Len(qcomponents)
    /\ ReadReturns("elements_dict", c, element_type,
                   elements_dict(qcomponents[c], c, components, elements, element_type))

\* qcomponents[c].elements_list(element_type)
ElementsList(c, element_type) ==
    /\ c \in 1..Len(qcomponents)
    /\ ReadReturns("elements_list", c, element_type,
                   elements_list(qcomponents[c], c, components, elements, element_type))

\* qcomponents[c].elements_table(element_type)
ElementsTable(c, element_type) ==
    /\ c \in 1..Len(qcomponents)
    /\ ReadReturns("elements_table", c, element_type,
                   elements_table(qcomponents[c], c, components, elements, element_type))

-----------------------------------------------------------------------------
(* Specifications *)

\* the classes that are instantiated, and the template keys in use
InstClasses == {"E"}
TemplateKeys == {"E"}

\* the value written by an option assignment (no dict holds it initially)
NewAtoms == {3}

InitDesign ==
    /\ heap = InitHeap
    /\ resolved = [cls |-> "", options |-> EmptyDict]
    /\ template_options = [k \in {} |-> None]
    /\ template_source = [k \in {} |-> None]
    /\ latest_id = 0
    /\ components = [i \in {} |-> 0]
    /\ qcomponents = <<>>
    /\ constructed = <<>>
    /\ elements = [i \in {} |-> 0]
    /\ calls = <<>>
    /\ last = NoLast

\* the class table: class E(D, C) with C(B), D(B); B declares cell 1,
\* C cell 2, D nothing, E cell 4
InitClasses ==
    /\ bases = DiamondDC
    /\ default_options = [c \in ClassNames |->
                             CASE c = "B" -> 1 [] c = "C" -> 2 [] c = "E" -> 4
                               [] OTHER -> None]

Init == InitClasses /\ InitDesign

\* the build lifecycle: construction and rebuilds under every make() behaviour
Next ==
    \/ \E ok \in BOOLEAN, cls \in InstClasses, mk \in BOOLEAN, script \in MakeScripts :
          __init__(ok, cls, None, mk, None, script)
    \/ \E c \in 1..MaxComponents, script \in MakeScripts : DoMake(c, script)

Spec == Init /\ [][Next]_vars

\* template registration and instance options
NextTemplates ==
    \/ \E cls \in InstClasses, options \in {None} \cup CallerDicts,
          tmpl \in {None} \cup CallerDicts :
          __init__(TRUE, cls, options, TRUE, tmpl, <<>>)
    \/ \E cls \in {"C", "E"}, key \in TemplateKeys, tmpl \in {None} \cup CallerDicts :
          Register(cls, key, tmpl)
    \/ \E cls \in InstClasses, key \in {""} \cup TemplateKeys, tmpl \in {None} \cup CallerDicts :
          GetTemplateOptions(cls, tmpl, key)
    \/ \E c \in 1..MaxComponents, v \in NewAtoms : SetOption(c, "x", v)
    \/ \E c \in 1..MaxComponents, v \in NewAtoms : SetNestedOption(c, "y", "x", v)

SpecTemplates == Init /\ [][NextTemplates]_vars

\* the names pins are stored under
PinNames == {"a", "b"}

\* pins of several components under the same names: components are created
\* unbuilt and pins are added, replaced and refused
NextPins ==
    \/ \E cls \in InstClasses : __init__(TRUE, cls, None, FALSE, None, <<>>)
    \/ \E c \in 1..MaxComponents, name \in PinNames,
          points \in {p \in PointLists : p[1] /= <<1, 1>>} :
          AddPin(c, name, points, "Q1", FALSE, "main")

SpecPins == Init /\ [][NextPins]_vars

\* make_pin over every list of points, flipped and not
NextPinGeometry ==
    \/ \E cls \in InstClasses : __init__(TRUE, cls, None, FALSE, None, <<>>)
    \/ \E c \in 1..MaxComponents, points \in PointLists, flip \in BOOLEAN :
          AddPin(c, "a", points, "Q1", flip, "main")

SpecPinGeometry == Init /\ [][NextPinGeometry]_vars

\* geometry of several components: direct add_elements calls and the read
\* accessors, for known and unknown kinds
NextGeometry ==
    \/ \E cls \in InstClasses, mk \in BOOLEAN, script \in {<<>>, <<"add_elements">>} :
          __init__(TRUE, cls, None, mk, None, script)
    \/ \E c \in 1..MaxComponents, args \in ElementArgs : AddElements(c, args)
    \/ \E c \in 1..MaxComponents, kind \in ElementKinds : ElementsDict(c, kind)
    \/ \E c \in 1..MaxComponents, kind \in ElementKinds : ElementsList(c, kind)
    \/ \E c \in 1..MaxComponents, kind \in ElementKinds : ElementsTable(c, kind)

SpecGeometry == Init /\ [][NextGeometry]_vars

\* classes with and without default options: in one class table no class
\* declares any, in the other only E does
InitSoft ==
    /\ bases = DiamondDC
    /\ default_options \in {[c \in ClassNames |-> None],
                            [c \in ClassNames |-> IF c = "E" THEN 4 ELSE None]}
    /\ InitDesign

NextSoft ==
    \/ \E cls \in InstClasses, options \in {None, 6}, tmpl \in {None, 5, 8} :
          __init__(TRUE, cls, options, TRUE, tmpl, <<>>)
    \/ \E cls \in InstClasses, key \in {""} \cup TemplateKeys, tmpl \in {None, 5, 8} :
          GetTemplateOptions(cls, tmpl, key)

SpecSoft == InitSoft /\ [][NextSoft]_vars

\* builds and rebuilds whose make() adds pins as well as geometry
NextRebuildPins ==
    \/ \E cls \in InstClasses, mk \in BOOLEAN, script \in PinScripts :
          __init__(TRUE, cls, None, mk, None, script)
    \/ \E c \in 1..MaxComponents, script \in PinScripts : DoMake(c, script)

SpecRebuildPins == Init /\ [][NextRebuildPins]_vars

\* option resolution over every class table
InitResolve ==
    /\ bases \in Hierarchies
    /\ default_options \in {f \in [ClassNames -> {None} \cup ClassDicts] :
                               f["object"] = None /\ f["QComponent"] = None}
    /\ InitDesign

NextResolve == \E cls \in SubClasses : Gather(cls)

SpecResolve == InitResolve /\ [][NextResolve]_vars

-----------------------------------------------------------------------------
(* Option resolution: C1, C2 *)

\* the fold, base to derived, of the dicts the classes of parents declare
\* themselves; a class that declares none is skipped
RECURSIVE OwnFoldFrom(_, _, _, _)
OwnFoldFrom(h, parents, i, acc) ==
    IF i < 1 THEN acc
    ELSE Bind(IF default_options[parents[i]] /= None
              THEN MergeDicts(acc, h[default_options[parents[i]]])
              ELSE acc,
              LAMBDA merged : OwnFoldFrom(h, parents, i - 1, merged))

OwnFold(h, cls) ==
    Bind(getmro(cls), LAMBDA parents : OwnFoldFrom(h, parents, Len(parents) - 1, EmptyDict))

\* the positions in mro of the classes that declare key k themselves
Declarers(h, mro, k) ==
    {i \in 1..Len(mro) : /\ default_options[mro[i]] /= None
                         /\ k \in DOMAIN h[default_options[mro[i]]]}

\* C1: the template _gather_all_children_options produces holds exactly the
\* keys some class of the ancestry declares, and each key has the value of
\* the most derived class that declares it.
C1_DerivedWins ==
    resolved.cls /= "" =>
        LET mro == getmro(resolved.cls) IN
        /\ DOMAIN resolved.options = {k \in KeySet : Declarers(heap, mro, k) /= {}}
        /\ \A k \in DOMAIN resolved.options :
              LET ds == Declarers(heap, mro, k)
                  i0 == CHOOSE i \in ds : \A j \in ds : i <= j
              IN  resolved.options[k] = heap[default_options[mro[i0]]][k]

\* C2: a class that declares no default_options of its own contributes
\* nothing: the template equals the fold over the declaring classes only.
C2_OnlyDeclarersContribute ==
    resolved.cls /= "" => resolved.options = OwnFold(heap, resolved.cls)

\* under single inheritance both statements hold
SingleInheritanceAgrees ==
    bases = Linear => C1_DerivedWins /\ C2_OnlyDeclarersContribute

-----------------------------------------------------------------------------
(* Template registration: C3, C4, C5 *)

\* the steps that register or look up a template
TemplateOps == {"register", "get_template_options", "__init__"}

\* the steps that assign to an instance's options
OptionWrites == {"set_option", "set_nested_option"}

\* C3: once a template key is registered in the design, no later call of
\* _register_class_with_design, get_template_options or the constructor,
\* whatever explicit template it is given, changes the template stored
\* under the key: it stays the object, with the contents, of the first call.
C3_RegistrationIdempotent ==
    [][\A k \in DOMAIN template_options :
          /\ k \in DOMAIN template_options'
          /\ template_options'[k] = template_options[k]
          /\ FlatView(heap', template_options'[k]) = FlatView(heap, template_options[k])]_vars

\* a call on an already registered key, given a non-empty explicit template
\* whose contents differ from the stored template, has just returned
C3_Witness ==
    /\ last.op \in TemplateOps
    /\ ~last.stored
    /\ ~last.raised
    /\ last.key \in DOMAIN template_options
    /\ Truthy(heap, last.component_template)
    /\ FlatView(heap, last.component_template) /= FlatView(heap, template_options[last.key])

\* C4: right after the first registration of a key, the stored template
\* equals the explicit template if one was given (an empty mapping
\* included), and the merged ancestry result only if none was given.
C4_ExplicitTemplateStored ==
    (last.op \in TemplateOps /\ last.stored) =>
        FlatView(heap, template_options[last.key]) =
            IF last.component_template /= None
            THEN FlatView(heap, last.component_template)
            ELSE FlatOf(heap, _gather_all_children_options(heap, last.cls))

\* the dicts an option write through instance c must leave alone according
\* to C5: every stored template, every other instance's options, every class
\* default_options and every explicit template a stored template was built from
OtherRoots(c) ==
    {template_options[k] : k \in DOMAIN template_options}
    \cup {qcomponents[j].options : j \in (1..Len(qcomponents)) \ {c}}
    \cup {default_options[cl] : cl \in {x \in ClassNames : default_options[x] /= None}}
    \cup {template_source[k] : k \in {x \in DOMAIN template_source : template_source[x] /= None}}

CallerCells(c) == Reach(heap, qcomponents[c].options) \cap (1..Len(InitHeap))

-----------------------------------------------------------------------------
(* Build lifecycle and ids: C6 .. C10 *)

\* the last operation ran on an instance (a constructor past its design
\* check, or do_make / rebuild)
OnInstance == last.op \in {"__init__", "do_make"} /\ last.self /= 0

\* the positions in `calls` of the entries of kind op
CallsOf(op) == {i \in 1..Len(calls) : calls[i].op = op}

\* C6: when make() raises during do_make / rebuild, in the constructor or
\* later, the caller gets the exception and the status is 'failed'
\* afterwards, never 'good', whatever it was before; and an attempt that
\* raises nothing ran make() to its end and leaves 'good'.
C6_FailedAfterRaise ==
    (OnInstance /\ CallsOf("make") /= {}) =>
        /\ last.raised => qcomponents[last.self].status = "failed"
        /\ ~last.raised => qcomponents[last.self].status = "good"

\* a rebuild of a component whose status was 'good' has just raised
C6_Witness ==
    /\ last.op = "do_make"
    /\ last.raised
    /\ last.status_before = "good"

\* C7: a do_make / rebuild on an already-built component sends exactly one
\* delete_component, with the component's id, and sends it before make()
\* is entered; a first build sends none.
C7_PurgeBeforeMake ==
    (OnInstance /\ CallsOf("make") /= {}) =>
        IF last.made_before
        THEN /\ CallsOf("delete_component") = {1}
             /\ calls[1].id = qcomponents[last.self].id
             /\ \A i \in CallsOf("make") : i > 1
        ELSE CallsOf("delete_component") = {}

\* a rebuild of an already-built component has just returned
C7_Witness ==
    /\ last.op = "do_make"
    /\ last.made_before
    /\ ~last.raised
    /\ CallsOf("add_elements") /= {}

\* C8 as stated: a component whose constructor has returned never has
\* status 'not built', and a constructor that returns leaves 'good'.
C8_NeverNotBuilt ==
    /\ \A i \in 1..Len(qcomponents) :
          constructed[i].returned => qcomponents[i].status /= "not built"
    /\ (last.op = "__init__" /\ last.self /= 0 /\ ~last.raised) =>
          qcomponents[last.self].status = "good"

\* C8 as amended: for a component constructed with make=True, status
\* 'not built' is never observed once the constructor has ended; such a
\* constructor, when it returns, leaves 'good', and make() was entered with
\* status 'failed'. (With make=False the constructor returns with 'not built'.)
C8_NeverNotBuiltWhenMade ==
    /\ \A i \in 1..Len(qcomponents) :
          constructed[i].make => qcomponents[i].status /= "not built"
    /\ (last.op = "__init__" /\ last.self /= 0 /\ constructed[last.self].make) =>
          /\ CallsOf("make") /= {}
          /\ \A i \in CallsOf("make") : calls[i].status = "failed"
          /\ ~last.raised => qcomponents[last.self].status = "good"

\* a constructor called with make=True has just returned
C8_Witness ==
    /\ last.op = "__init__"
    /\ last.self /= 0
    /\ ~last.raised
    /\ constructed[last.self].make

\* C9: the ids of the components created in one design are distinct and
\* strictly increasing in creation order, each constructor draws exactly
\* one id from the allocator, and design.components maps each id to the
\* component it was assigned to, and holds nothing else.
C9_IdsUniqueIncreasing ==
    /\ \A i, j \in 1..Len(qcomponents) :
          i < j => qcomponents[i].id < qcomponents[j].id
    /\ \A i \in 1..Len(qcomponents) :
          /\ qcomponents[i].id \in DOMAIN components
          /\ components[qcomponents[i].id] = i
    /\ DOMAIN components = {qcomponents[i].id : i \in 1..Len(qcomponents)}
    /\ latest_id = Len(qcomponents)
    /\ (last.op = "__init__" /\ last.self /= 0) => last.ids_drawn = 1

\* a second component has just been constructed in the design
C9_Witness ==
    /\ last.op = "__init__"
    /\ last.self >= 2
    /\ Len(qcomponents) >= 2

\* C10: every add_elements and delete_component that reaches the geometry
\* table carries the id the allocator assigned to the calling component,
\* never the placeholder 0, and whenever make() is entered the component
\* is already in design.components under that id.
C10_IdBeforeGeometry ==
    OnInstance =>
        \A i \in 1..Len(calls) :
            /\ calls[i].id = qcomponents[last.self].id
            /\ calls[i].id /= 0
            /\ calls[i].id \in 1..latest_id
            /\ calls[i].op = "make" => calls[i].registered

\* a constructor has just built its component and make() added geometry
C10_Witness ==
    /\ last.op = "__init__"
    /\ last.self /= 0
    /\ CallsOf("make") /= {}
    /\ CallsOf("add_elements") /= {}

-----------------------------------------------------------------------------
(* Construction preconditions and deferred builds: C11, C12 *)

\* C11: a constructor given an object that is not a valid design raises and
\* changes nothing: no id is drawn, no template is registered, nothing is
\* added to design.components or to the instances, the heap and the
\* geometry table are untouched and make() is not entered.
C11_InvalidDesignNoEffect ==
    [][(last'.op = "__init__" /\ ~last'.design_ok) =>
          /\ last'.raised
          /\ last'.self = 0
          /\ calls' = <<>>
          /\ UNCHANGED <<heap, template_options, template_source, latest_id, components,
                         qcomponents, constructed, elements>>]_vars

\* a constructor has just been refused for an invalid design, in a design
\* that already holds a component
C11_Witness ==
    /\ last.op = "__init__"
    /\ ~last.design_ok
    /\ last.raised
    /\ Len(qcomponents) >= 1

\* the components that were constructed with make=False and are still 'not built'
Deferred == {i \in 1..Len(qcomponents) :
                ~constructed[i].make /\ qcomponents[i].status = "not built"}

\* C12: a constructor called with make=False returns normally with the
\* component filed in design.components under a drawn id, without entering
\* make() or sending anything to the geometry table, with status
\* 'not built' and _made false; and the component stays exactly so, owning
\* no geometry, through every step that is not a do_make / rebuild of it.
C12_NoBuildUnlessAsked ==
    [][/\ (last'.op = "__init__" /\ last'.self /= 0 /\ ~constructed'[last'.self].make) =>
             LET self == qcomponents'[last'.self] IN
             /\ ~last'.raised
             /\ calls' = <<>>
             /\ elements' = elements
             /\ self.status = "not built"
             /\ ~self.made
             /\ self.id = latest_id'
             /\ self.id /= 0
             /\ self.id \in DOMAIN components'
             /\ components'[self.id] = last'.self
       /\ \A i \in Deferred :
             ~(last'.op = "do_make" /\ last'.self = i) =>
                /\ qcomponents'[i] = qcomponents[i]
                /\ RowsOf(elements', qcomponents[i].id) = 0
                /\ \A e \in 1..Len(calls') : calls'[e].id /= qcomponents[i].id]_vars

\* a component constructed with make=False is still not built after a later
\* step built another component and added geometry
C12_Witness ==
    /\ Deferred /= {}
    /\ OnInstance
    /\ last.self \notin Deferred
    /\ CallsOf("add_elements") /= {}

-----------------------------------------------------------------------------
(* Pins: C13, C14, C18 *)

\* C13: a successful add_pin(name, ...) on a component makes get_pin(name)
\* on it return the pin built from that call's arguments, whether or not
\* the name was already there, and raises nothing; it changes no other
\* name of the component and no pin of any other component; and no step
\* that is not a successful add_pin changes any pin. (So get_pin always
\* returns the pin of the most recent successful add_pin of the name.)
C13_LastWriteWins ==
    [][/\ \A i \in 1..Len(qcomponents) :
             \A n \in DOMAIN qcomponents[i].pins :
                (~(last'.op = "add_pin" /\ ~last'.raised /\ last'.self = i
                   /\ last'.args.name = n)) =>
                    /\ n \in DOMAIN qcomponents'[i].pins
                    /\ get_pin(qcomponents'[i], n) = get_pin(qcomponents[i], n)
       /\ \A i \in 1..Len(qcomponents') :
             \A n \in DOMAIN qcomponents'[i].pins :
                (i > Len(qcomponents) \/ n \notin DOMAIN qcomponents[i].pins) =>
                    (last'.op = "add_pin" /\ last'.self = i /\ last'.args.name = n)
       /\ (last'.op = "add_pin" /\ Len(last'.args.points) = 2) =>
             LET a == last'.args IN
             /\ ~last'.raised
             /\ get_pin(qcomponents'[last'.self], a.name) =
                    [raised |-> FALSE,
                     ret |-> make_pin(a.points, a.parent, a.flip, a.chip).pin]]_vars

\* a name has just been given a second, different pin while another
\* component holds a pin under the same name
C13_Witness ==
    /\ last.op = "add_pin"
    /\ ~last.raised
    /\ \E j \in 1..Len(qcomponents) :
          /\ j /= last.self
          /\ last.args.name \in DOMAIN qcomponents[j].pins
          /\ qcomponents[j].pins[last.args.name] /=
                qcomponents[last.self].pins[last.args.name]
          /\ qcomponents[j].pins[last.args.name].points /= << <<0, 0>>, <<2, 0>> >>
    /\ last.args.points = << <<0, 0>>, <<2, 0>> >>

\* C14: make_pin, and with it add_pin, raises exactly when the number of
\* points is not 2, and an add_pin that raises leaves the pins of the
\* component as they were: the same names with the same pins.
C14_BadPointsRefused ==
    [][last'.op = "add_pin" =>
          /\ last'.raised <=> Len(last'.args.points) /= 2
          /\ make_pin(last'.args.points, last'.args.parent, last'.args.flip,
                      last'.args.chip).raised <=> Len(last'.args.points) /= 2
          /\ last'.raised => qcomponents'[last'.self].pins = qcomponents[last'.self].pins]_vars

\* an add_pin with three points has just been refused for a name that
\* holds a pin
C14_Witness ==
    /\ last.op = "add_pin"
    /\ last.raised
    /\ Len(last.args.points) = 3
    /\ last.args.name \in DOMAIN qcomponents[last.self].pins

\* the product and the sum of two exact numbers, and the dot product
FracMul(f, g) == Frac(f[1] * g[1], f[2] * g[2])
FracAdd(f, g) == Frac(f[1] * g[2] + g[1] * f[2], f[2] * g[2])
Dot(u, v) == FracAdd(FracMul(u[1], v[1]), FracMul(u[2], v[2]))

\* C18: the pin add_pin stores for the points (0,0), (2,0) unflipped has
\* width 2, tangent (1,0), middle (1,0) and a normal of length 1 orthogonal
\* to the tangent; for any two points the pin made with the opposite flip
\* is the same pin but for the normal, which is negated; net_id is 0.
C18_PinGeometry ==
    (last.op = "add_pin" /\ ~last.raised) =>
        LET a == last.args
            pin == get_pin(qcomponents[last.self], a.name).ret
            other == make_pin(a.points, a.parent, ~a.flip, a.chip).pin
        IN  /\ pin.net_id = 0
            /\ other.net_id = 0
            /\ other = [pin EXCEPT !.normal = <<NegFrac(pin.normal[1]), NegFrac(pin.normal[2])>>]
            /\ (a.points = << <<0, 0>>, <<2, 0>> >> /\ ~a.flip) =>
                  /\ pin.width = 2
                  /\ pin.tangent = <<Frac(1, 1), Frac(0, 1)>>
                  /\ pin.middle = <<Frac(1, 1), Frac(0, 1)>>
                  /\ Dot(pin.normal, pin.tangent) = Frac(0, 1)
                  /\ Dot(pin.normal, pin.normal) = Frac(1, 1)

\* a flipped pin whose normal has two non-zero coordinates has just been
\* stored, while another component holds the unflipped pin of (0,0), (2,0)
C18_Witness ==
    /\ last.op = "add_pin"
    /\ ~last.raised
    /\ last.args.flip
    /\ qcomponents[last.self].pins["a"].normal[1][1] /= 0
    /\ qcomponents[last.self].pins["a"].normal[2][1] /= 0
    /\ \E j \in 1..Len(qcomponents) :
          /\ "a" \in DOMAIN qcomponents[j].pins
          /\ qcomponents[j].pins["a"].points = << <<0, 0>>, <<2, 0>> >>
          /\ qcomponents[j].pins["a"].normal = <<Frac(0, 1), Frac(1, 1)>>

-----------------------------------------------------------------------------
(* Geometry reads and writes: C15, C17 *)

\* the read accessors, with the table read each one forwards to
ReadOf ==
    [a \in {"elements_dict", "elements_list", "elements_table"} |->
        CASE a = "elements_dict" -> "get_component_geometry_dict"
          [] a = "elements_list" -> "get_component_geometry_list"
          [] a = "elements_table" -> "get_component"]

\* the geometry reads among the entries of `calls`
ReadCalls == {i \in 1..Len(calls) : calls[i].op \in {ReadOf[a] : a \in DOMAIN ReadOf}}

\* the accessor that just returned gave None and sent no geometry read
ReturnedNone == last.ret.none /\ ReadCalls = {}

\* the accessor that just returned sent exactly one geometry read, its
\* own, for this component's id and the caller's kind, and returned the
\* table's answer to it
ReturnedAnswer ==
    /\ ~last.ret.none
    /\ Cardinality(ReadCalls) = 1
    /\ \A i \in ReadCalls :
          /\ calls[i].op = ReadOf[last.op]
          /\ calls[i].id = qcomponents[last.self].id
          /\ calls[i].args.kind = last.args.kind
    /\ last.ret.answer = TableAnswer(ReadOf[last.op], elements, qcomponents[last.self].id,
                                     last.args.kind)

\* C15 as stated: elements_dict, elements_list and elements_table return
\* None, raising nothing and sending no geometry read, for a kind the
\* table does not recognise, and the table's answer for this component's
\* id for a kind it recognises.
C15_UnknownKindNone ==
    last.op \in DOMAIN ReadOf =>
        /\ ~last.raised
        /\ IF check_element_type(last.args.kind) THEN ReturnedAnswer ELSE ReturnedNone

\* C15 as amended: the same, except for 'all', which the table does not
\* recognise as a kind: elements_list forwards 'all' to the table without
\* checking it and returns the table's answer, while elements_dict and
\* elements_table return None for it as for any unknown kind.
C15_UnknownKindNoneExceptAll ==
    last.op \in DOMAIN ReadOf =>
        /\ ~last.raised
        /\ IF last.op = "elements_list" /\ last.args.kind = "all"
           THEN ReturnedAnswer /\ CallsOf("check_element_type") = {}
           ELSE /\ CallsOf("check_element_type") = {1}
                /\ IF check_element_type(last.args.kind) THEN ReturnedAnswer
                   ELSE ReturnedNone

\* elements_dict has just returned None for an unknown kind on a component
\* that owns geometry
C15_Witness ==
    /\ last.op = "elements_dict"
    /\ last.args.kind = "bogus"
    /\ last.ret.none
    /\ RowsOf(elements, qcomponents[last.self].id) > 0

\* C17: a direct add_elements call sends exactly one add_elements to the
\* geometry table and nothing else, under the component's id and with
\* the caller's kind, subtract, helper, layer and chip as given, raises
\* nothing whatever the flags are (subtract and helper both true
\* included) and the table gains that one row; and every add_elements a
\* build sends carries the component's id.
C17_AddElementsForwarded ==
    /\ last.op = "add_elements" =>
          /\ ~last.raised
          /\ Len(calls) = 1
          /\ calls[1].op = "add_elements"
          /\ calls[1].id = qcomponents[last.self].id
          /\ calls[1].args = last.args
          /\ RowsOf(elements, qcomponents[last.self].id) = calls[1].rows + 1
    /\ OnInstance =>
          \A i \in CallsOf("add_elements") :
              /\ calls[i].id = qcomponents[last.self].id
              /\ calls[i].args = DefaultElementArgs

\* a direct add_elements with subtract and helper both true has just
\* been forwarded
C17_Witness ==
    /\ last.op = "add_elements"
    /\ last.args.subtract
    /\ last.args.helper
    /\ Len(calls) = 1
    /\ calls[1].args.subtract /\ calls[1].args.helper

-----------------------------------------------------------------------------
(* Missing default options: C16 *)

\* no class in the ancestry of cls declares default_options
Bare(cls) == \A i \in 1..Len(getmro(cls)) : default_options[getmro(cls)[i]] = None

\* C16: with a valid design, get_template_options raises nothing, leaves
\* the key in design.template_options and returns a mapping equal to the
\* stored template; a constructor whose make() raises nothing raises
\* nothing either, and for a class with no default options in its
\* ancestry, given no explicit template and no options, the new instance
\* has an empty options mapping.
C16_NoDefaultsNoRaise ==
    /\ last.op = "get_template_options" =>
          /\ ~last.raised
          /\ last.key \in DOMAIN template_options
          /\ last.ret = FlatView(heap, template_options[last.key])
    /\ (last.op = "__init__" /\ last.design_ok) =>
          /\ ~last.raised
          /\ last.self /= 0
          /\ last.key \in DOMAIN template_options
          /\ (Bare(last.cls) /\ template_source[last.key] = None
                /\ last.args.options = None) =>
                 DOMAIN heap[qcomponents[last.self].options] = {}

\* a component of a class with no default options in its ancestry has
\* just been created without explicit template or options, and its
\* (empty) template is now registered
C16_Witness ==
    /\ last.op = "__init__"
    /\ ~last.raised
    /\ last.stored
    /\ Bare(last.cls)
    /\ last.component_template = None
    /\ last.args.options = None
    /\ DOMAIN heap[template_options[last.key]] = {}
    /\ DOMAIN heap[qcomponents[last.self].options] = {}

-----------------------------------------------------------------------------
(* Failed builds and stale geometry: C19, C20 *)

\* C19: after a rebuild of an already-built component whose make() raised,
\* the status is 'failed', _made is still true, and the geometry table
\* holds for the component's id only what the failed make() added before
\* it raised: every row of the earlier build was purged and none is put back.
C19_NoRollback ==
    (last.op = "do_make" /\ last.made_before /\ last.raised) =>
        LET self == qcomponents[last.self] IN
        /\ self.status = "failed"
        /\ self.made
        /\ RowsOf(elements, self.id) = Cardinality(CallsOf("add_elements"))
        /\ \A i \in CallsOf("make") : calls[i].rows = 0

\* a rebuild of a component that was 'good' and owned geometry has just
\* raised before adding anything: the component owns no geometry now
C19_Witness ==
    /\ last.op = "do_make"
    /\ last.made_before
    /\ last.raised
    /\ last.status_before = "good"
    /\ calls[1].op = "delete_component"
    /\ calls[1].rows > 0
    /\ RowsOf(elements, qcomponents[last.self].id) = 0

\* C20: whenever make() is entered by do_make / rebuild, in the
\* constructor or later, the geometry table holds no row owned by the
\* component's id, whether or not an earlier make() returned.
C20_NoAccumulation ==
    OnInstance => \A i \in CallsOf("make") : calls[i].rows = 0

-----------------------------------------------------------------------------
(* A constructor whose build raises: C21 *)

\* C21: when make() raises inside the constructor, the caller gets the
\* exception and what the constructor did before stays: the id it drew is
\* consumed, the component is in design.components under that id with
\* status 'failed' and _made false, and the template of its class is
\* registered; and all of that is still so after any later step that is
\* not a build of that component.
C21_FailedConstructorPersists ==
    /\ (last.op = "__init__" /\ last.self /= 0 /\ last.raised) =>
          /\ last.ids_drawn = 1
          /\ qcomponents[last.self].id = latest_id
          /\ qcomponents[last.self].status = "failed"
          /\ ~qcomponents[last.self].made
          /\ last.key \in DOMAIN template_options
    /\ \A i \in 1..Len(qcomponents) :
          LET self == qcomponents[i] IN
          /\ self.id \in 1..latest_id
          /\ self.id \in DOMAIN components
          /\ components[self.id] = i
          /\ _get_unique_class_name(self.class_name) \in DOMAIN template_options
          /\ (~constructed[i].returned /\ ~self.made) => self.status = "failed"

\* a constructor whose make() added geometry and then raised has left its
\* component in the design, and a later constructor has drawn the next id
C21_Witness ==
    /\ last.op = "__init__"
    /\ last.self = 2
    /\ ~constructed[1].returned
    /\ qcomponents[1].status = "failed"
    /\ ~qcomponents[1].made
    /\ RowsOf(elements, qcomponents[1].id) > 0
    /\ qcomponents[2].id = qcomponents[1].id + 1

-----------------------------------------------------------------------------
(* Pins across rebuilds: C22 *)

\* make() following script reaches a step that adds the pin 'a'
AddsPin(script) ==
    \E i \in 1..Len(script) :
        /\ script[i] \in DOMAIN PinSteps
        /\ \A j \in 1..(i - 1) : script[j] /= "raise"

\* C22: do_make / rebuild removes no entry of the component's pins: every
\* name that was in self.pins before is in it afterwards, and a name the
\* new make() did not add again still has the pin it had, whether the
\* geometry was purged or not and whether make() raised or not.
C22_PinsSurviveRebuild ==
    [][last'.op = "do_make" =>
          LET old == qcomponents[last'.self]
              new == qcomponents'[last'.self]
          IN  \A n \in DOMAIN old.pins :
                 /\ n \in DOMAIN new.pins
                 /\ ~(n = "a" /\ AddsPin(last'.args.script)) =>
                        get_pin(new, n) = get_pin(old, n)]_vars

\* a rebuild that purged geometry and whose make() added no pin has just
\* returned, and the pin of the earlier build is still there
C22_Witness ==
    /\ last.op = "do_make"
    /\ last.made_before
    /\ ~last.raised
    /\ ~AddsPin(last.args.script)
    /\ calls[1].op = "delete_component"
    /\ calls[1].rows > 0
    /\ get_pin(qcomponents[last.self], "a") =
          [raised |-> FALSE,
           ret |-> make_pin(PinSteps["add_pin"], qcomponents[last.self].class_name,
                            FALSE, "main").pin]

-----------------------------------------------------------------------------
(* The status machine: C23 *)

\* the step just taken ran make() of component i to its end
MadeNow(i) ==
    /\ last'.op \in {"__init__", "do_make"}
    /\ last'.self = i
    /\ ~last'.raised
    /\ \E e \in 1..Len(calls') : calls'[e].op = "make"

\* C23: every component's status is 'not built', 'failed' or 'good';
\* 'good' implies _made; _made is true after a step exactly if it was true
\* before or the step ran make() of the component to its end, so it is
\* true exactly when some make() has returned normally and never goes
\* back to false; and a status that is not 'not built' never becomes
\* 'not built'.
C23_StatusMachine ==
    [][\A i \in 1..Len(qcomponents') :
          LET new == qcomponents'[i]
              existed == i <= Len(qcomponents)
          IN  /\ new.status \in {"not built", "failed", "good"}
              /\ new.status = "good" => new.made
              /\ new.made <=> ((existed /\ qcomponents[i].made) \/ MadeNow(i))
              /\ (existed /\ qcomponents[i].status /= "not built") =>
                    new.status /= "not built"]_vars

\* a second build of a component has just raised like its first one: the
\* status is 'failed' again and the component was never made
C23_Witness ==
    /\ last.op = "do_make"
    /\ last.raised
    /\ ~last.made_before
    /\ last.status_before = "failed"
    /\ ~qcomponents[last.self].made
    /\ \E j \in 1..Len(qcomponents) :
          qcomponents[j].made /\ qcomponents[j].status = "failed"

-----------------------------------------------------------------------------
(* The options of a new instance: C24 *)

\* the contents of the caller's options argument, as the constructor sees
\* them: nothing when the argument is None or empty
Given(h, options) == IF Truthy(h, options) THEN FlatView(h, options) ELSE [p \in {} |-> 0]

====
